---- MODULE Spec2Model ----
(***************************************************************************)
(* The requirement-document store of AIDevlopStudy.py and the five MCP     *)
(* tools that read and mutate it.                                          *)
(*                                                                         *)
(* State: the module-level dict current_requirements, the two files the    *)
(* RequirementStorage object owns (requirements.json, history.json), the   *)
(* wall clock, and for every invocation its position in the handler, its   *)
(* locals (kept until the invocation's next call starts) and the text it   *)
(* returned.                                                               *)
(*                                                                         *)
(* A mutating handler is a fixed sequence of statements: the in-memory     *)
(* append, storage.save_history_entry (a read of history.json followed by  *)
(* a write of it) and storage.save_requirements.  Each statement is one    *)
(* step, so that the order of the side effects and the interleavings of    *)
(* two invocations are visible; the handler always runs all of them.       *)
(*                                                                         *)
(* The Chinese category labels of category_mapping cannot be written in a  *)
(* TLA+ string; each is replaced by an ASCII gloss, listed at              *)
(* category_mapping.  Timestamps are readings of a clock that never goes   *)
(* back.                                                                   *)
(***************************************************************************)
EXTENDS Naturals, Sequences, FiniteSets, TLC

VARIABLES current_requirements, requirements_file, history_file,
          clock, pc, frame, result, calls

vars == <<current_requirements, requirements_file, history_file,
          clock, pc, frame, result, calls>>

\* ---------------------------------------------------------------- bounds

\* Mutating tool calls in one behaviour.
MaxCalls == 2

\* Largest reading of the wall clock; a reading is one microsecond tick.
MaxClock == 1

\* Clock ticks in one second, the resolution of strftime('%Y%m%d_%H%M%S').
TicksPerSecond == 2

\* ------------------------------------------------------------ invocations

\* The invocations of a host that serializes its tool calls, and of a host
\* that runs two tool calls at once.
Serial == {1}

Workers == {1, 2}

\* Outcomes of one file operation.  "ok": it succeeded.  "error": open()
\* raised, the file is untouched.  "partial": open(..., 'w') truncated the
\* file and the write raised before the JSON text was complete.
Reliable == {"ok"}

Faulty == {"ok", "error", "partial"}

\* ------------------------------------------------------------- the document

\* Python None as the empty option, a value v as <<v>>.
None == <<>>

Some(v) == <<v>>

RequirementKeys ==
    <<"project_overview", "functional_requirements", "technical_requirements",
      "design_requirements", "deployment_requirements", "ai_constraints">>

SequenceKeys ==
    {RequirementKeys[i] : i \in 1..Len(RequirementKeys)}
        \cup {"clarification_history", "architecture_designs"}

DocKeys ==
    RequirementKeys \o
        <<"clarification_history", "architecture_designs", "last_updated", "project_id">>

DefaultRequirements ==
    [project_overview |-> <<>>,
     functional_requirements |-> <<>>,
     technical_requirements |-> <<>>,
     design_requirements |-> <<>>,
     deployment_requirements |-> <<>>,
     ai_constraints |-> <<>>,
     clarification_history |-> <<>>,
     architecture_designs |-> <<>>,
     last_updated |-> None,
     project_id |-> None]

\* sum(len(current_requirements[key]) for key in [the six requirement keys])
RECURSIVE SumLen(_, _, _)
SumLen(doc, keys, i) ==
    IF i > Len(keys) THEN 0 ELSE Len(doc[keys[i]]) + SumLen(doc, keys, i + 1)

TotalRequirements(doc) == SumLen(doc, RequirementKeys, 1)

TotalEntries(doc) ==
    TotalRequirements(doc) + Len(doc.clarification_history) + Len(doc.architecture_designs)

\* list.append, with the list replaced by the new entry alone.
AppendEntry_Replace(doc, key, entry) == [doc EXCEPT ![key] = <<entry>>]

\* list.append
AppendEntry(doc, key, entry) == [doc EXCEPT ![key] = Append(@, entry)]

\* ------------------------------------------------------------------- JSON

\* json.dump of a dict: its items in insertion order, as <<key, value>>.
JsonDump(doc) == [i \in 1..Len(DocKeys) |-> <<DocKeys[i], doc[DocKeys[i]]>>]

JsonHas(items, key) == \E i \in 1..Len(items) : items[i][1] = key

JsonGet(items, key) == items[CHOOSE i \in 1..Len(items) : items[i][1] = key][2]

\* dict.update(saved_data): a key of the file overrides, another key stays.
Updated(doc, items) ==
    LET V(key) == IF JsonHas(items, key) THEN JsonGet(items, key) ELSE doc[key]
    IN  [project_overview |-> V("project_overview"),
         functional_requirements |-> V("functional_requirements"),
         technical_requirements |-> V("technical_requirements"),
         design_requirements |-> V("design_requirements"),
         deployment_requirements |-> V("deployment_requirements"),
         ai_constraints |-> V("ai_constraints"),
         clarification_history |-> V("clarification_history"),
         architecture_designs |-> V("architecture_designs"),
         last_updated |-> V("last_updated"),
         project_id |-> V("project_id")]

\* ------------------------------------------------------------------ files

\* A file: absent, holding parseable JSON (data), or holding broken text.
NoFile(empty) == [state |-> "absent", data |-> empty]

JsonFile(data) == [state |-> "ok", data |-> data]

BrokenFile(empty) == [state |-> "corrupt", data |-> empty]

\* open(path, 'w') followed by json.dump(value, f).
WriteJson(file, value, outcome, empty) ==
    CASE outcome = "ok" -> JsonFile(value)
      [] outcome = "error" -> file
      [] OTHER -> BrokenFile(empty)

\* ------------------------------------------------------------------ clock

\* datetime.now(): the clock has not moved since the last reading, or it has
\* moved on by a tick.
Now(c) == {t \in {c, c + 1} : t <= MaxClock}

\* strftime('%Y%m%d_%H%M%S'): the reading cut to whole seconds.  The process
\* starts at an arbitrary instant; reading 0 is the last tick of a second.
Strftime(t) == (t + 1) \div TicksPerSecond

\* ------------------------------------------------------------ tool inputs

\* The nine labels of category_mapping, in its order:
\*   zh_project_overview                  项目概述
\*   zh_core_functional_requirements      核心功能需求
\*   zh_functional_and_ui_requirements    功能和UI需求
\*   zh_functional_requirements           功能需求
\*   zh_technical_requirements            技术需求
\*   zh_technical_and_design_constraints  技术和设计约束
\*   zh_design_requirements               设计需求
\*   zh_deployment_requirements           部署需求
\*   zh_ai_constraints                    AI约束
category_mapping ==
    [zh_project_overview |-> "project_overview",
     zh_core_functional_requirements |-> "functional_requirements",
     zh_functional_and_ui_requirements |-> "functional_requirements",
     zh_functional_requirements |-> "functional_requirements",
     zh_technical_requirements |-> "technical_requirements",
     zh_technical_and_design_constraints |-> "technical_requirements",
     zh_design_requirements |-> "design_requirements",
     zh_deployment_requirements |-> "deployment_requirements",
     zh_ai_constraints |-> "ai_constraints"]

\* The lookup with another default.
StorageCategory_OtherDefault(category) ==
    IF category \in DOMAIN category_mapping
    THEN category_mapping[category]
    ELSE "project_overview"

\* category_mapping.get(category, "functional_requirements")
StorageCategory(category) ==
    IF category \in DOMAIN category_mapping
    THEN category_mapping[category]
    ELSE "functional_requirements"

\* Labels a caller can pass: the nine of the table and labels outside it (the
\* test's free text, the name of a document key).
Labels ==
    DOMAIN category_mapping \cup {"unrecognized-category-xyz", "project_overview"}

\* The labels of the calls that are not about the routing: one of the table
\* for each of three keys, and one outside it.
CommonLabels ==
    {"zh_project_overview", "zh_functional_requirements",
     "zh_technical_and_design_constraints", "unrecognized-category-xyz"}

Infos == {"X"}

UserInputs == {"U"}

Contexts == {""}

DesignFocuses == {"full_architecture", "api"}

\* The f-string architecture_design: fixed text around design_focus.
ArchitectureDesign(design_focus) ==
    IF design_focus = "full_architecture" THEN "design(full_architecture)" ELSE "design(api)"

\* ----------------------------------------------------------- invocations

MutatingTools == {"requirement_clarifier", "requirement_manager", "architecture_designer"}

NoEntry == [timestamp |-> 0, type |-> "", content |-> "", metadata |-> <<"", "">>]

NoExport == [json_name |-> 0, json_state |-> "absent", md_name |-> 0, md_state |-> "absent"]

\* The locals of an invocation: the arguments save_history_entry gets, the
\* history_entry and history it builds, the side effects done so far, and
\* the files an export wrote.
NoFrame ==
    [tool |-> "", type |-> "", content |-> "", metadata |-> <<"", "">>,
     history_entry |-> NoEntry, history |-> <<>>, effects |-> <<>>,
     exported |-> NoExport]

NoResult == [tool |-> "", notes |-> {}, total_requirements |-> 0, paths |-> <<>>]

\* The two save calls of a handler in the other order.
StatementAfter_SnapshotFirst(stmt) ==
    CASE stmt = "append" -> "save_requirements"
      [] stmt = "save_requirements" -> "save_history_entry"
      [] stmt = "save_history_entry" -> "return"

\* The statement a mutating handler runs after each of its statements.
StatementAfter(stmt) ==
    CASE stmt = "append" -> "save_history_entry"
      [] stmt = "save_history_entry" -> "save_requirements"
      [] stmt = "save_requirements" -> "return"

\* The in-memory append that opens every mutating handler, and the call of
\* save_history_entry with its arguments.
Mutate(p, tool, key, entry, type, content, metadata, t) ==
    /\ pc[p] = "idle"
    /\ calls < MaxCalls
    /\ clock' = t
    /\ current_requirements' = AppendEntry(current_requirements, key, entry)
    /\ frame' = [frame EXCEPT ![p] =
                    [NoFrame EXCEPT !.tool = tool, !.type = type, !.content = content,
                                    !.metadata = metadata, !.effects = <<"memory">>]]
    /\ pc' = [pc EXCEPT ![p] = StatementAfter("append")]
    /\ result' = [result EXCEPT ![p] = NoResult]
    /\ calls' = calls + 1
    /\ UNCHANGED <<requirements_file, history_file>>

requirement_clarifier(p) ==
    \E user_input \in UserInputs, context \in Contexts, t \in Now(clock) :
        Mutate(p, "requirement_clarifier", "clarification_history",
               [timestamp |-> t, user_input |-> user_input, context |-> context],
               "requirement_clarification", user_input, <<"context", context>>, t)

requirement_manager(p, labels) ==
    \E clarified_info \in Infos, category \in labels, t \in Now(clock) :
        Mutate(p, "requirement_manager", StorageCategory(category),
               [timestamp |-> t, category |-> category, content |-> clarified_info],
               "requirement_update", clarified_info, <<"category", category>>, t)

architecture_designer(p, focuses) ==
    \E design_focus \in focuses, t \in Now(clock) :
        Mutate(p, "architecture_designer", "architecture_designs",
               [timestamp |-> t, design_focus |-> design_focus,
                content |-> ArchitectureDesign(design_focus)],
               "architecture_design", ArchitectureDesign(design_focus),
               <<"design_focus", design_focus>>, t)

\* The entry appended to what history.json holds at the time of the write.
AppendHistory_Reread(history, history_entry) == Append(history_file.data, history_entry)

\* The history list started afresh at every call.
AppendHistory_Overwrite(history, history_entry) == <<history_entry>>

\* history.append(history_entry)
AppendHistory(history, history_entry) == Append(history, history_entry)

\* save_history_entry up to the read of history.json: the entry is built, and
\* the file, if it exists, is read; a read or a parse that raises ends
\* save_history_entry in its except branch, with nothing written.
save_history_entry_read(p, io) ==
    /\ pc[p] = "save_history_entry"
    /\ \E t \in Now(clock), outcome \in io :
          LET history_entry ==
                  [timestamp |-> t, type |-> frame[p].type,
                   content |-> frame[p].content, metadata |-> frame[p].metadata]
              raised == /\ history_file.state # "absent"
                        /\ (outcome # "ok" \/ history_file.state = "corrupt")
          IN  /\ clock' = t
              /\ frame' = [frame EXCEPT ![p].history_entry = history_entry,
                                        ![p].history = history_file.data]
              /\ pc' = [pc EXCEPT ![p] =
                          IF raised THEN StatementAfter("save_history_entry")
                          ELSE "write_history"]
    /\ UNCHANGED <<current_requirements, requirements_file, history_file, result, calls>>

\* The rest of save_history_entry: the list that was read, with the entry
\* appended, replaces the content of history.json.
save_history_entry_write(p, io) ==
    /\ pc[p] = "write_history"
    /\ \E outcome \in io :
          /\ history_file' =
                 WriteJson(history_file,
                           AppendHistory(frame[p].history, frame[p].history_entry),
                           outcome, <<>>)
          /\ frame' = [frame EXCEPT ![p].effects =
                          IF outcome = "ok" THEN Append(@, "history") ELSE @]
    /\ pc' = [pc EXCEPT ![p] = StatementAfter("save_history_entry")]
    /\ UNCHANGED <<current_requirements, requirements_file, clock, result, calls>>

\* last_updated set on the first save only.
Stamped_Once(doc, t) ==
    IF doc.last_updated = None THEN [doc EXCEPT !.last_updated = Some(t)] ELSE doc

\* current_requirements["last_updated"] = datetime.now().isoformat()
Stamped(doc, t) == [doc EXCEPT !.last_updated = Some(t)]

\* The dump taken before last_updated is set.
Snapshot_Stale(doc, t) == JsonDump(doc)

\* json.dump(current_requirements, f), after last_updated was set.
Snapshot(doc, t) == JsonDump(Stamped(doc, t))

\* save_requirements: last_updated is set, then the whole document is dumped
\* over requirements.json; a write that raises is logged and swallowed.
save_requirements(p, io) ==
    /\ pc[p] = "save_requirements"
    /\ \E t \in Now(clock), outcome \in io :
          /\ clock' = t
          /\ current_requirements' = Stamped(current_requirements, t)
          /\ requirements_file' =
                 WriteJson(requirements_file, Snapshot(current_requirements, t),
                           outcome, <<>>)
          /\ frame' = [frame EXCEPT ![p].effects =
                          IF outcome = "ok" THEN Append(@, "snapshot") ELSE @]
    /\ pc' = [pc EXCEPT ![p] = StatementAfter("save_requirements")]
    /\ UNCHANGED <<history_file, result, calls>>

\* The text a mutating tool returns, by what it tells the caller:
\* requirement_manager's report always says that the requirement and the
\* history record were saved, architecture_designer's that the design was.
ReturnedText(tool, doc) ==
    [NoResult EXCEPT
        !.tool = tool,
        !.notes = CASE tool = "requirement_manager" ->
                           {"requirements_saved", "history_saved"}
                    [] tool = "architecture_designer" -> {"architecture_saved"}
                    [] OTHER -> {},
        !.total_requirements =
            IF tool = "requirement_manager" THEN TotalRequirements(doc) ELSE 0]

Return(p) ==
    /\ pc[p] = "return"
    /\ result' = [result EXCEPT ![p] = ReturnedText(frame[p].tool, current_requirements)]
    /\ pc' = [pc EXCEPT ![p] = "idle"]
    /\ UNCHANGED <<current_requirements, requirements_file, history_file,
                   clock, frame, calls>>

\* The next-step suggestions of the status report.
Suggestions(doc) ==
    (IF TotalRequirements(doc) < 3 THEN {"clarify_more"} ELSE {})
        \cup (IF Len(doc.architecture_designs) = 0 THEN {"generate_architecture"} ELSE {})
        \cup (IF TotalRequirements(doc) >= 3 /\ Len(doc.architecture_designs) >= 1
              THEN {"ready_to_export"} ELSE {})

view_requirements_status(p) ==
    /\ pc[p] = "idle"
    /\ result' = [result EXCEPT ![p] =
                     [NoResult EXCEPT
                         !.tool = "view_requirements_status",
                         !.notes = Suggestions(current_requirements),
                         !.total_requirements = TotalRequirements(current_requirements)]]
    /\ frame' = [frame EXCEPT ![p] = NoFrame]
    /\ UNCHANGED <<current_requirements, requirements_file, history_file,
                   clock, pc, calls>>

\* What RequirementStorage.export_final_document leaves on disk: the JSON file
\* under the name of the first strftime, and, when that write did not raise,
\* the Markdown file under the name of the second.  generate_markdown_report
\* swallows its own failure.
Exported(json_name, json_outcome, md_name, md_outcome) ==
    [json_name |-> json_name,
     json_state |-> CASE json_outcome = "ok" -> "ok"
                      [] json_outcome = "error" -> "absent"
                      [] OTHER -> "corrupt",
     md_name |-> md_name,
     md_state |-> CASE json_outcome # "ok" -> "absent"
                    [] md_outcome = "ok" -> "ok"
                    [] md_outcome = "error" -> "absent"
                    [] OTHER -> "corrupt"]

\* The value RequirementStorage.export_final_document returns: str(export_file),
\* or None from its except branch.
ExportPath(json_name, json_outcome, md_outcome) ==
    IF json_outcome = "ok" THEN Some(json_name) ELSE None

\* The text of the tool: the success summary with the path and the path with
\* .json replaced by .md, or the failure text.
ExportText(export_path, doc) ==
    IF export_path # None
    THEN [NoResult EXCEPT
             !.tool = "export_final_document",
             !.notes = {"export_done"},
             !.total_requirements = TotalRequirements(doc),
             !.paths = <<export_path[1], export_path[1]>>]
    ELSE [NoResult EXCEPT !.tool = "export_final_document", !.notes = {"export_failed"}]

\* The tool and the store method it calls: the clock is read for
\* generated_at, for the name of the JSON file, for the name of the Markdown
\* file and for the text of the summary.
export_final_document(p, io) ==
    /\ pc[p] = "idle"
    /\ \E generated_at \in Now(clock), json_outcome \in io, md_outcome \in io :
       \E t_json \in Now(generated_at) :
       \E t_md \in Now(t_json) :
       \E t_end \in Now(t_md) :
          /\ frame' = [frame EXCEPT ![p] =
                          [NoFrame EXCEPT
                              !.tool = "export_final_document",
                              !.exported = Exported(Strftime(t_json), json_outcome,
                                                    Strftime(t_md), md_outcome)]]
          /\ clock' = IF json_outcome = "ok" THEN t_end ELSE t_json
          /\ result' = [result EXCEPT ![p] =
                           ExportText(ExportPath(Strftime(t_json), json_outcome, md_outcome),
                                      current_requirements)]
    /\ UNCHANGED <<current_requirements, requirements_file, history_file, pc, calls>>

\* A load that leaves out the two history sequences.
load_requirements_RequirementsOnly(doc, file, outcome) ==
    IF file.state = "ok" /\ outcome = "ok"
    THEN [Updated(doc, file.data) EXCEPT
             !.clarification_history = doc.clarification_history,
             !.architecture_designs = doc.architecture_designs]
    ELSE doc

\* load_requirements: the saved items are merged over the defaults; a file
\* that cannot be read or parsed leaves the defaults, with a warning.
load_requirements(doc, file, outcome) ==
    IF file.state = "ok" /\ outcome = "ok" THEN Updated(doc, file.data) ELSE doc

\* What the log of load_requirements shows.
Loaded(file, outcome) ==
    CASE file.state = "absent" -> "no_file"
      [] file.state = "ok" /\ outcome = "ok" -> "loaded"
      [] OTHER -> "load_failed"

\* A process start between two tool calls: the module is executed again, so
\* current_requirements is the default dict, and RequirementStorage() loads
\* the snapshot file.
RequirementStorage(io) ==
    /\ \A p \in Workers : pc[p] = "idle"
    /\ \E outcome \in io \ {"partial"} :
          /\ current_requirements' =
                 load_requirements(DefaultRequirements, requirements_file, outcome)
          /\ result' = [p \in Workers |->
                           [NoResult EXCEPT
                               !.tool = "RequirementStorage",
                               !.notes = {Loaded(requirements_file, outcome)}]]
    /\ frame' = [p \in Workers |-> NoFrame]
    /\ UNCHANGED <<requirements_file, history_file, clock, pc, calls>>

\* ---------------------------------------------------------- specifications

\* The first start of the process, in an empty storage directory.
Init ==
    /\ current_requirements = DefaultRequirements
    /\ requirements_file = NoFile(<<>>)
    /\ history_file = NoFile(<<>>)
    /\ clock = 0
    /\ pc = [p \in Workers |-> "idle"]
    /\ frame = [p \in Workers |-> NoFrame]
    /\ result = [p \in Workers |->
                    [NoResult EXCEPT !.tool = "RequirementStorage", !.notes = {"no_file"}]]
    /\ calls = 0

\* One tool call at a time, every file operation succeeds.
Next ==
    \/ \E p \in Serial : requirement_clarifier(p)
    \/ \E p \in Serial : requirement_manager(p, CommonLabels)
    \/ \E p \in Serial : architecture_designer(p, DesignFocuses)
    \/ \E p \in Serial : save_history_entry_read(p, Reliable)
    \/ \E p \in Serial : save_history_entry_write(p, Reliable)
    \/ \E p \in Serial : save_requirements(p, Reliable)
    \/ \E p \in Serial : Return(p)
    \/ \E p \in Serial : view_requirements_status(p)
    \/ \E p \in Serial : export_final_document(p, Reliable)
    \/ RequirementStorage(Reliable)

Spec == Init /\ [][Next]_vars

\* One tool call at a time, file operations may fail.
NextFault ==
    \/ \E p \in Serial : requirement_clarifier(p)
    \/ \E p \in Serial : requirement_manager(p, CommonLabels)
    \/ \E p \in Serial : architecture_designer(p, DesignFocuses)
    \/ \E p \in Serial : save_history_entry_read(p, Faulty)
    \/ \E p \in Serial : save_history_entry_write(p, Faulty)
    \/ \E p \in Serial : save_requirements(p, Faulty)
    \/ \E p \in Serial : Return(p)
    \/ \E p \in Serial : view_requirements_status(p)
    \/ \E p \in Serial : export_final_document(p, Faulty)
    \/ RequirementStorage(Faulty)

SpecFault == Init /\ [][NextFault]_vars

\* A host that records requirements under every label and reads the status.
NextManager ==
    \/ \E p \in Serial : requirement_manager(p, Labels)
    \/ \E p \in Serial : save_history_entry_read(p, Reliable)
    \/ \E p \in Serial : save_history_entry_write(p, Reliable)
    \/ \E p \in Serial : save_requirements(p, Reliable)
    \/ \E p \in Serial : Return(p)
    \/ \E p \in Serial : view_requirements_status(p)

SpecManager == Init /\ [][NextManager]_vars

\* Two mutating tool calls at a time in one process (the default
\* design_focus, one label), every file operation succeeds.
NextConc ==
    \/ \E p \in Workers : requirement_clarifier(p)
    \/ \E p \in Workers : requirement_manager(p, {"zh_project_overview"})
    \/ \E p \in Workers : architecture_designer(p, {"full_architecture"})
    \/ \E p \in Workers : save_history_entry_read(p, Reliable)
    \/ \E p \in Workers : save_history_entry_write(p, Reliable)
    \/ \E p \in Workers : save_requirements(p, Reliable)
    \/ \E p \in Workers : Return(p)

SpecConc == Init /\ [][NextConc]_vars

\* ------------------------------------------------------------------ claims

IsPrefix(s, t) == Len(s) <= Len(t) /\ SubSeq(t, 1, Len(s)) = s

Idle == \A p \in Workers : pc[p] = "idle"

\* A mutating tool call of p has returned and p has made no call since.
Returned(p) == pc[p] = "idle" /\ result[p].tool \in MutatingTools

\* C1. Append-only document: in every step of every tool call, each of the
\* six requirement sequences, clarification_history and architecture_designs
\* of the in-memory document is a prefix of what it is after the step; no
\* entry is edited, reordered or removed.
C1_AppendOnly ==
    [][\A key \in SequenceKeys :
          IsPrefix(current_requirements[key], current_requirements'[key])]_vars

\* Two entries were appended to one sequence.
C1_Witness ==
    /\ Idle
    /\ \E key \in SequenceKeys : Len(current_requirements[key]) >= 2

\* C2. Write-through: when a mutating tool call has returned,
\* requirements.json holds the dump of the in-memory document, last_updated
\* included, and loading it gives the in-memory document back.
C2_WriteThrough ==
    \A p \in Serial :
        Returned(p) =>
            /\ requirements_file = JsonFile(JsonDump(current_requirements))
            /\ load_requirements(DefaultRequirements, requirements_file, "ok")
                   = current_requirements

\* A second mutating call has returned: the file was overwritten with a
\* document of two entries.
C2_Witness ==
    /\ Returned(1)
    /\ TotalEntries(current_requirements) >= 2
    /\ requirements_file.state = "ok"

\* C3. Append survives reload: from the empty store, when the process has
\* been restarted after N mutating calls, the document load_requirements
\* built holds N entries over the eight sequences; and between two calls the
\* snapshot on disk is one that a restart would load N entries from.
C3_AppendSurvivesReload ==
    Idle =>
        /\ result[1].tool = "RequirementStorage"
              => TotalEntries(current_requirements) = calls
        /\ TotalEntries(load_requirements(DefaultRequirements, requirements_file, "ok"))
              = calls

\* The process was restarted after two calls of two different kinds and
\* loaded the snapshot.
C3_Witness ==
    /\ Idle
    /\ result[1].tool = "RequirementStorage"
    /\ result[1].notes = {"loaded"}
    /\ calls >= 2
    /\ TotalRequirements(current_requirements) >= 1
    /\ TotalRequirements(current_requirements) < TotalEntries(current_requirements)

\* C4. History log, one call at a time: a step changes history.json only by
\* appending the one record of the call in progress to the content it had,
\* and between two calls the file holds one record for every mutating call
\* made; nothing is truncated, changed or dropped.
C4_HistoryAppendOnly ==
    /\ [](Idle =>
             /\ Len(history_file.data) = calls
             /\ (calls > 0 => history_file.state = "ok"))
    /\ [][
          /\ IsPrefix(history_file.data, history_file'.data)
          /\ (history_file' # history_file =>
                 \E p \in Serial :
                     /\ pc[p] = "write_history"
                     /\ history_file' =
                            JsonFile(Append(history_file.data, frame[p].history_entry))
                     /\ frame[p].history_entry.type = frame[p].type)
       ]_vars

\* The second call has appended its record behind the first call's.
C4_Witness ==
    /\ Idle
    /\ Len(history_file.data) >= 2
    /\ history_file.data[1].type # history_file.data[2].type

\* C5 as claimed: the snapshot write comes before the history write, so a
\* call's side effects are done in the order memory, snapshot, history.
C5_SnapshotBeforeHistory ==
    \A p \in Serial :
        IsPrefix(frame[p].effects, <<"memory", "snapshot", "history">>)

\* C5, amended. Step ordering inside every mutating operation: the in-memory
\* append comes first, then history.json is read-modified-written, and only
\* after that requirements.json is written; when the snapshot write starts,
\* the call's history record is on disk and the snapshot does not hold the
\* call's entry yet.
C5_HistoryBeforeSnapshot ==
    \A p \in Serial :
        /\ IsPrefix(frame[p].effects, <<"memory", "history", "snapshot">>)
        /\ pc[p] = "save_history_entry" =>
              /\ frame[p].effects = <<"memory">>
              /\ Len(history_file.data) = calls - 1
        /\ pc[p] = "save_requirements" =>
              /\ frame[p].effects = <<"memory", "history">>
              /\ history_file.data[Len(history_file.data)] = frame[p].history_entry
              /\ TotalEntries(current_requirements) = calls
              /\ TotalEntries(load_requirements(DefaultRequirements,
                                                 requirements_file, "ok")) = calls - 1
        /\ pc[p] = "return" =>
              frame[p].effects = <<"memory", "history", "snapshot">>

\* The second call is about to write the snapshot: its history record is on
\* disk, the snapshot still is the first call's.
C5_Witness ==
    /\ pc[1] = "save_requirements"
    /\ calls = 2
    /\ Len(history_file.data) = 2
    /\ requirements_file.state = "ok"

\* C6. Lost history update: when two concurrent mutating calls have both read
\* the same content of history.json, have both written it and have both
\* returned, the file holds that content and one record more, the record of
\* one of the two calls: the other record is lost, while the document holds
\* the entries of both calls and both calls returned their usual text.
C6_LostHistoryUpdate ==
    \A p \in Workers, q \in Workers :
        (/\ p # q
         /\ Returned(p) /\ Returned(q)
         /\ frame[p].tool \in MutatingTools /\ frame[q].tool \in MutatingTools
         /\ "history" \in {frame[p].effects[i] : i \in 1..Len(frame[p].effects)}
         /\ "history" \in {frame[q].effects[i] : i \in 1..Len(frame[q].effects)}
         /\ frame[p].history = frame[q].history)
        => /\ Len(history_file.data) = Len(frame[p].history) + 1
           /\ history_file.data \in
                 {Append(frame[p].history, frame[p].history_entry),
                  Append(frame[q].history, frame[q].history_entry)}
           /\ Len(history_file.data) < calls
           /\ TotalEntries(current_requirements) = calls
           /\ result[p] = ReturnedText(frame[p].tool, current_requirements)
           /\ result[q] = ReturnedText(frame[q].tool, current_requirements)

\* Two calls of different tools read the empty history, both wrote and
\* returned, and history.json holds one record.
C6_Witness ==
    /\ Returned(1) /\ Returned(2)
    /\ frame[1].tool = "requirement_manager"
    /\ frame[2].tool = "requirement_clarifier"
    /\ frame[1].effects = <<"memory", "history", "snapshot">>
    /\ frame[2].effects = <<"memory", "history", "snapshot">>
    /\ frame[1].history = frame[2].history
    /\ calls = 2
    /\ Len(history_file.data) = 1
    /\ "history_saved" \in result[1].notes

\* C7 as claimed. PersistFailure: when the write of requirements.json or of
\* history.json failed during a mutating tool call, the call returns, the
\* entry it appended in memory is kept, and the text it returns carries a
\* failure note and does not say that the data was saved.  Stated for
\* requirement_manager, the tool whose report speaks of both files.
C7_FailureIsReported ==
    \A p \in Serial :
        (/\ Returned(p)
         /\ frame[p].tool = "requirement_manager"
         /\ frame[p].effects # <<"memory", "history", "snapshot">>)
        => /\ frame[p].effects[1] = "memory"
           /\ TotalEntries(current_requirements) >= 1
           /\ "failure_note" \in result[p].notes
           /\ result[p].notes \cap {"requirements_saved", "history_saved",
                                     "architecture_saved"} = {}

\* C8 as claimed. ExportFailure: export_final_document returns the success
\* summary, with the paths, exactly when both the JSON file and the Markdown
\* file were written, and the failure text otherwise.
C8_ExportReportsEitherFailure ==
    \A p \in Serial :
        (pc[p] = "idle" /\ result[p].tool = "export_final_document")
        => LET both == /\ frame[p].exported.json_state = "ok"
                       /\ frame[p].exported.md_state = "ok"
           IN  /\ both => result[p].notes = {"export_done"} /\ result[p].paths # <<>>
               /\ ~both => result[p].notes = {"export_failed"} /\ result[p].paths = <<>>

\* C9. Category routing with default: the step in which requirement_manager
\* appends puts one entry, with the label and the content of the call, at the
\* end of one requirement sequence and leaves the seven other sequences as
\* they are; the sequence is the one the table gives for the label, and
\* functional_requirements for a label outside the table.
C9_CategoryRouting ==
    [][\A p \in Serial :
          (pc[p] = "idle" /\ pc'[p] # "idle" /\ frame'[p].tool = "requirement_manager")
          => LET label == frame'[p].metadata[2]
                 target ==
                     CASE label = "zh_project_overview" -> "project_overview"
                       [] label \in {"zh_core_functional_requirements",
                                     "zh_functional_and_ui_requirements",
                                     "zh_functional_requirements"}
                            -> "functional_requirements"
                       [] label \in {"zh_technical_requirements",
                                     "zh_technical_and_design_constraints"}
                            -> "technical_requirements"
                       [] label = "zh_design_requirements" -> "design_requirements"
                       [] label = "zh_deployment_requirements" -> "deployment_requirements"
                       [] label = "zh_ai_constraints" -> "ai_constraints"
                       [] OTHER -> "functional_requirements"
             IN  /\ current_requirements'[target] =
                        Append(current_requirements[target],
                               [timestamp |-> clock', category |-> label,
                                content |-> frame'[p].content])
                 /\ \A key \in SequenceKeys \ {target} :
                        current_requirements'[key] = current_requirements[key]
                 /\ TotalRequirements(current_requirements')
                        = TotalRequirements(current_requirements) + 1]_vars

\* A label outside the table (the name of another key) was filed under
\* functional_requirements and a label of the table under its own key, and
\* the status report counts both.
C9_Witness ==
    /\ Len(current_requirements.functional_requirements) = 1
    /\ current_requirements.functional_requirements[1].category = "project_overview"
    /\ Len(current_requirements.deployment_requirements) = 1
    /\ current_requirements.deployment_requirements[1].category
          = "zh_deployment_requirements"
    /\ result[1].tool = "view_requirements_status"
    /\ result[1].total_requirements = 2

\* C10 as claimed: after every mutating call last_updated is the timestamp
\* of the last appended entry, the latest timestamp of the document.
C10_EqualsLastEntryTimestamp ==
    \A p \in Serial :
        Returned(p) =>
            LET stamps == UNION {{current_requirements[key][i].timestamp :
                                     i \in 1..Len(current_requirements[key])} :
                                 key \in SequenceKeys}
            IN  /\ current_requirements.last_updated # None
                /\ current_requirements.last_updated[1] \in stamps
                /\ \A t \in stamps : t <= current_requirements.last_updated[1]

\* C10, amended. last_updated never decreases; it is absent until the first
\* mutating call; after every mutating call it is the reading of the clock
\* that the call's save_requirements took, at or after the timestamp of the
\* entry the call appended, so that no entry of the document carries a later
\* timestamp; view_requirements_status, export_final_document and a reload
\* leave it as it is.
C10_LastUpdated ==
    /\ [](
          /\ (calls = 0 => current_requirements.last_updated = None)
          /\ \A p \in Serial :
                 Returned(p) =>
                     /\ current_requirements.last_updated # None
                     /\ current_requirements.last_updated[1] <= clock
                     /\ \A key \in SequenceKeys :
                           \A i \in 1..Len(current_requirements[key]) :
                               current_requirements[key][i].timestamp
                                   <= current_requirements.last_updated[1]
         )
    /\ [][
          /\ (current_requirements.last_updated # None =>
                 /\ current_requirements'.last_updated # None
                 /\ current_requirements.last_updated[1]
                        <= current_requirements'.last_updated[1])
          /\ (\A p \in Serial :
                 pc[p] = "save_requirements" =>
                     current_requirements'.last_updated = Some(clock'))
          /\ (pc' = pc => current_requirements'.last_updated
                             = current_requirements.last_updated)
       ]_vars

\* The clock moved between the append and the save of a call: last_updated
\* is later than the timestamp of every entry.
C10_Witness ==
    /\ Returned(1)
    /\ TotalEntries(current_requirements) >= 2
    /\ \A key \in SequenceKeys :
          \A i \in 1..Len(current_requirements[key]) :
              current_requirements[key][i].timestamp
                  < current_requirements.last_updated[1]

\* C11 as claimed. Export path agreement: when export_final_document has
\* returned the success summary, the Markdown path it reports (the JSON path
\* with .json replaced by .md) is the name under which this export wrote the
\* Markdown file, and the two files of the export carry the same timestamp
\* in their names, whatever the clock did between the two strftime calls.
C11_ExportPathAgreement ==
    \A p \in Serial :
        (/\ pc[p] = "idle"
         /\ result[p].tool = "export_final_document"
         /\ "export_done" \in result[p].notes)
        => /\ frame[p].exported.json_state = "ok"
           /\ result[p].paths[1] = frame[p].exported.json_name
           /\ result[p].paths[2] = frame[p].exported.md_name
           /\ frame[p].exported.json_name = frame[p].exported.md_name

====
